---- MODULE Spec2Model ----
(***************************************************************************)
(* Model of neurofis/nfs.py: class NFS (train, repair, test).              *)
(*                                                                         *)
(* Numbers.  The program computes on Python floats (IEEE 754 binary64).   *)
(* A float of the model is 0 or sgn * (hi * 2^27 + lo) * 2^ex with a       *)
(* 53-bit significand hi * 2^27 + lo, and FAdd, FSub and FDiv round to     *)
(* nearest, ties to even, as the machine does.  Observations and labels    *)
(* are the integers of the caller's arrays.                                *)
(*                                                                         *)
(* Objects.  A Point object is the pair (feature, j), j in 1..NumPoints,   *)
(* with its x in pts[feature][j].  An MF object is the pair (feature, k),  *)
(* k in 1..NumSplits, with its three Point references in mfs[feature][k].  *)
(* A rule key (a tuple of MF objects) is the tuple of the k's.  The dict   *)
(* self._rules is the sequence rules, in insertion order.                  *)
(***************************************************************************)
EXTENDS Integers, Sequences, FiniteSets

VARIABLES pc, data, target, minObs, nbIter, rate, nbFeatures,
          pts, mfs, rules, rf, rr, ret, repairs,
          it, ob, steps, winner, scanActs,
          testRows, testActs, predictions

vars == <<pc, data, target, minObs, nbIter, rate, nbFeatures,
          pts, mfs, rules, rf, rr, ret, repairs,
          it, ob, steps, winner, scanActs,
          testRows, testActs, predictions>>

\* ------------------------------------------------------------ constants
NumPoints == 7
Divisor == 7
NumSplits == 5
NoClass == -1

\* --------------------------------------------------------------- bounds
MaxFeatures == 1
MaxData == 3
MaxVal == 2
MaxClass == 1
MaxMinObs == 2
MaxIter == 2
MaxRepairs == 2

\* ------------------------------------------------------ binary64 floats
\* the low limb of a significand has 27 bits, the high limb 26
Limb == 2^27
Top == 2^26
FZero == [sgn |-> 0, ex |-> 0, hi |-> 0, lo |-> 0]

\* the number of bits of n, 0 <= n < 2^30: the least k in lo..hi with n < 2^k
RECURSIVE BitSearch(_, _, _)
BitSearch(n, lo, hi) ==
    IF lo = hi THEN lo
    ELSE IF n < 2^((lo + hi) \div 2) THEN BitSearch(n, lo, (lo + hi) \div 2)
         ELSE BitSearch(n, (lo + hi) \div 2 + 1, hi)
BitLen(n) == BitSearch(n, 0, 30)
BigLen(b) == IF b.hi > 0 THEN 27 + BitLen(b.hi) ELSE BitLen(b.lo)

\* b * 2^k for 0 <= k <= 27
ShlBig(b, k) ==
    [hi |-> b.hi * 2^k + b.lo \div 2^(27 - k), lo |-> (b.lo % 2^(27 - k)) * 2^k]

\* floor(b / 2^k) for 0 <= k <= 27, and whether a 1 bit was dropped
ShrBig(b, k) ==
    [hi |-> b.hi \div 2^k,
     lo |-> (b.hi % 2^k) * 2^(27 - k) + b.lo \div 2^k,
     st |-> b.lo % 2^k # 0]

RECURSIVE ShrAny(_, _)
ShrAny(b, k) ==
    IF k <= 27 THEN ShrBig(b, k)
    ELSE LET r == ShrBig(b, 27)
             q == ShrAny(r, k - 27)
         IN  [hi |-> q.hi, lo |-> q.lo, st |-> r.st \/ q.st]

RECURSIVE ShlAny(_, _)
ShlAny(b, k) == IF k <= 26 THEN ShlBig(b, k) ELSE ShlAny(ShlBig(b, 26), k - 26)

BigAdd(a, b) ==
    [hi |-> a.hi + b.hi + (a.lo + b.lo) \div Limb, lo |-> (a.lo + b.lo) % Limb]
BigSub(a, b) ==
    IF a.lo >= b.lo THEN [hi |-> a.hi - b.hi, lo |-> a.lo - b.lo]
    ELSE [hi |-> a.hi - b.hi - 1, lo |-> a.lo + Limb - b.lo]
BigLess(a, b) == a.hi < b.hi \/ (a.hi = b.hi /\ a.lo < b.lo)

\* round to nearest, ties to even, of sgn * (b + t) * 2^ex, 0 < t < 1 iff st
Round(sgn, b, ex, st) ==
    LET n == BigLen(b)
    IN  IF n = 0 THEN FZero
        ELSE IF n <= 53
        THEN LET m == ShlAny(b, 53 - n)
             IN  [sgn |-> sgn, ex |-> ex - (53 - n), hi |-> m.hi, lo |-> m.lo]
        ELSE LET d == n - 53
                 r == ShrAny(b, d - 1)
                 m == ShrBig(r, 1)
                 up == r.lo % 2 = 1 /\ (st \/ r.st \/ m.lo % 2 = 1)
                 m1 == IF up THEN BigAdd(m, [hi |-> 0, lo |-> 1]) ELSE m
             IN  IF m1.hi = Top
                 THEN [sgn |-> sgn, ex |-> ex + d + 1, hi |-> Top \div 2, lo |-> 0]
                 ELSE [sgn |-> sgn, ex |-> ex + d, hi |-> m1.hi, lo |-> m1.lo]

FromInt(k) ==
    IF k = 0 THEN FZero
    ELSE Round(IF k > 0 THEN 1 ELSE -1, [hi |-> 0, lo |-> IF k > 0 THEN k ELSE 0 - k], 0, FALSE)

MagLess(a, b) ==
    a.ex < b.ex \/ (a.ex = b.ex /\ (a.hi < b.hi \/ (a.hi = b.hi /\ a.lo < b.lo)))
FLess(a, b) ==
    IF a.sgn # b.sgn THEN a.sgn < b.sgn
    ELSE IF a.sgn = 0 THEN FALSE
    ELSE IF a.sgn = 1 THEN MagLess(a, b) ELSE MagLess(b, a)
FLeq(a, b) == a = b \/ FLess(a, b)
FNeg(a) == [a EXCEPT !.sgn = 0 - @]

FAdd(a, b) ==
    IF a.sgn = 0 THEN b
    ELSE IF b.sgn = 0 THEN a
    ELSE LET big == IF MagLess(a, b) THEN b ELSE a
             small == IF MagLess(a, b) THEN a ELSE b
             k == big.ex - small.ex
             A == ShlBig(big, 3)
             B == IF k > 56 THEN [hi |-> 0, lo |-> 0, st |-> TRUE]
                  ELSE ShrAny(ShlBig(small, 3), k)
         IN  IF a.sgn = b.sgn
             THEN Round(big.sgn, BigAdd(A, B), big.ex - 3, B.st)
             ELSE LET D0 == BigSub(A, B)
                      D == IF B.st THEN BigSub(D0, [hi |-> 0, lo |-> 1]) ELSE D0
                  IN  Round(big.sgn, D, big.ex - 3, B.st)
FSub(a, b) == FAdd(a, FNeg(b))

\* One bit of the quotient: s.r < 2 * d is the running remainder, s.q the bits
\* of the quotient so far.
DivStep(s, d) ==
    IF BigLess(s.r, d)
    THEN [r |-> ShlBig(s.r, 1), q |-> ShlBig(s.q, 1)]
    ELSE [r |-> ShlBig(BigSub(s.r, d), 1),
          q |-> BigAdd(ShlBig(s.q, 1), [hi |-> 0, lo |-> 1])]
DivStep5(s, d) == DivStep(DivStep(DivStep(DivStep(DivStep(s, d), d), d), d), d)

\* 5 * i more bits of the quotient; the remaining bits are 0 once the remainder is
RECURSIVE DivBits(_, _, _)
DivBits(s, d, i) ==
    IF i = 0 THEN s
    ELSE LET t == DivStep5(s, d)
         IN  IF t.r.hi = 0 /\ t.r.lo = 0
             THEN [r |-> t.r, q |-> ShlAny(t.q, 5 * (i - 1))]
             ELSE DivBits(t, d, i - 1)

\* the correctly rounded quotient: 55 bits of floor(a * 2^54 / b) and the sticky bit
FDiv(a, b) ==
    IF a.sgn = 0 THEN FZero
    ELSE LET res == DivBits([r |-> [hi |-> a.hi, lo |-> a.lo], q |-> [hi |-> 0, lo |-> 0]],
                            [hi |-> b.hi, lo |-> b.lo], 11)
         IN  Round(a.sgn * b.sgn, res.q, a.ex - b.ex - 54, res.r.hi # 0 \/ res.r.lo # 0)
One == FromInt(1)
\* float('+infinity'): greater than every float of the model
PlusInf == [sgn |-> 1, ex |-> Limb, hi |-> Top \div 2, lo |-> 0]

\* act += x / len
AddDiv(act, x, len) == FAdd(act, FDiv(x, FromInt(len)))

\* -------------------------------------------------- Point and MF objects
LowX(p, m, f, k) == p[f][m[f][k].low]
MidX(p, m, f, k) == p[f][m[f][k].mid]
HighX(p, m, f, k) == p[f][m[f][k].high]

\* MF.fuzzyfy: degree of membership of value v in the triangle (low, mid, high).
Fuzzyfy(p, m, f, k, v) ==
    LET lo == LowX(p, m, f, k)
        mi == MidX(p, m, f, k)
        hi == HighX(p, m, f, k)
    IN  IF v = mi THEN One
        ELSE IF FLess(lo, v) /\ FLess(v, mi) THEN FDiv(FSub(v, lo), FSub(mi, lo))
        ELSE IF FLess(mi, v) /\ FLess(v, hi) THEN FDiv(FSub(hi, v), FSub(hi, mi))
        ELSE FZero

Sign(x) == x.sgn
\* dir * lr for dir in {-1, 0, 1}
Times(dir, lr) == IF dir = 0 THEN FZero ELSE [lr EXCEPT !.sgn = dir * @]

\* MF.move(value, learning_rate, same_class): the three vertices of the function
\* are shifted in place, one after the other, by the distance lr toward the value
\* (same class) or away from it (different class).  Returns the positions of the
\* feature's Points.
Move(pf, mf, v, lr, same) ==
    LET dir == IF same THEN Sign(FSub(v, pf[mf.mid])) ELSE 0 - Sign(FSub(v, pf[mf.mid]))
        p1 == [pf EXCEPT ![mf.low] = FAdd(@, Times(dir, lr))]
        p2 == [p1 EXCEPT ![mf.mid] = FAdd(@, Times(dir, lr))]
    IN  [p2 EXCEPT ![mf.high] = FAdd(@, Times(dir, lr))]

\* ------------------------------------------------- train: the partitions
NumRows(d) == Len(d)
NumCols(d) == Len(d[1])
Column(d, f) == {d[i][f] : i \in 1..Len(d)}
ColMin(d, f) == CHOOSE v \in Column(d, f) : \A w \in Column(d, f) : v <= w
ColMax(d, f) == CHOOSE v \in Column(d, f) : \A w \in Column(d, f) : v >= w

\* Point(min_obs + n * (max_obs - min_obs) / 7)
PointX(d, f, n) ==
    FAdd(FromInt(ColMin(d, f)),
         FDiv(FromInt(n * (ColMax(d, f) - ColMin(d, f))), FromInt(Divisor)))

BuildPoints(d) ==
    [f \in 1..NumCols(d) |-> [j \in 1..NumPoints |-> PointX(d, f, j - 1)]]

\* MF(points[n], points[n + 1], points[n + 2]) for n in range(0, 5)
BuildSplits(d) ==
    [f \in 1..NumCols(d) |->
        [k \in 1..NumSplits |-> [low |-> k, mid |-> k + 1, high |-> k + 2]]]

\* ------------------------------------------------------ train: the grid
\* list(itertools.product(*mfs)): the last feature varies fastest.
RECURSIVE Product(_)
Product(n) ==
    IF n = 0 THEN << <<>> >>
    ELSE LET prev == Product(n - 1)
         IN  [i \in 1..(Len(prev) * NumSplits) |->
                Append(prev[((i - 1) \div NumSplits) + 1], ((i - 1) % NumSplits) + 1)]

\* data[observ, feature] as floats, for the comparisons with the Points
FloatRow(row) == [f \in 1..Len(row) |-> FromInt(row[f])]
FloatData(d) == [o \in 1..Len(d) |-> FloatRow(d[o])]

\* intersection[feature].low.x <= data[observ, feature] <= intersection[feature].high.x
InCell(p, m, key, row) ==
    \A f \in 1..Len(row) :
        /\ FLeq(LowX(p, m, f, key[f]), row[f])
        /\ FLeq(row[f], HighX(p, m, f, key[f]))

\* the observations found in the cell (lines 66-73), d being the float rows
Found(p, m, d, key) == {o \in 1..Len(d) : InCell(p, m, key, d[o])}

\* classes[c] and the keys of classes (lines 74-76)
CellCount(t, found, c) == Cardinality({o \in found : t[o] = c})
CellClasses(t, found) == {t[o] : o \in found}

PairLeq(a, b) == a[1] < b[1] \/ (a[1] = b[1] /\ a[2] <= b[2])

\* Mutant of MaxPair: the greatest count, ties to the smallest class.
MaxPairFirstClass(S) ==
    CHOOSE a \in S : \A b \in S : b[1] < a[1] \/ (b[1] = a[1] /\ a[2] <= b[2])

\* max(zip(classes.values(), classes.keys())): the greatest (count, class) pair
MaxPair(S) == CHOOSE a \in S : \A b \in S : PairLeq(b, a)

Dominant(t, found) ==
    MaxPair({<<CellCount(t, found, c), c>> : c \in CellClasses(t, found)})

RECURSIVE InduceFrom(_, _, _, _, _, _, _, _)
InduceFrom(p, m, d, t, mo, cells, i, acc) ==
    IF i > Len(cells) THEN acc
    ELSE LET found == Found(p, m, d, cells[i])
         IN  IF found = {}
             THEN InduceFrom(p, m, d, t, mo, cells, i + 1, acc)
             ELSE LET best == Dominant(t, found)
                  IN  IF best[1] >= mo
                      THEN InduceFrom(p, m, d, t, mo, cells, i + 1,
                                      Append(acc, [key |-> cells[i], cls |-> best[2]]))
                      ELSE InduceFrom(p, m, d, t, mo, cells, i + 1, acc)

\* --------------------------------------------------------------- repair
\* Mutant of NeighbourScan: `neighbour` is bound to other_rule[feature].
RECURSIVE NeighbourScanOther(_, _, _, _, _, _, _, _)
NeighbourScanOther(p, m, rs, f, k, i, nb, dist) ==
    IF i > Len(rs) THEN [nb |-> nb, dist |-> dist]
    ELSE LET gap == FSub(MidX(p, m, f, rs[i].key[f]), HighX(p, m, f, k))
         IN  IF FLess(HighX(p, m, f, k), MidX(p, m, f, rs[i].key[f])) /\ FLess(gap, dist)
             THEN NeighbourScanOther(p, m, rs, f, k, i + 1, rs[i].key[f], gap)
             ELSE NeighbourScanOther(p, m, rs, f, k, i + 1, nb, dist)

\* The scan of lines 124-131 for rule[feature] = (f, k): the MF object bound to
\* `neighbour` (its k, 0 for None) and dist.
RECURSIVE NeighbourScan(_, _, _, _, _, _, _, _)
NeighbourScan(p, m, rs, f, k, i, nb, dist) ==
    IF i > Len(rs) THEN [nb |-> nb, dist |-> dist]
    ELSE LET gap == FSub(MidX(p, m, f, rs[i].key[f]), HighX(p, m, f, k))
         IN  IF FLess(HighX(p, m, f, k), MidX(p, m, f, rs[i].key[f])) /\ FLess(gap, dist)
             THEN NeighbourScan(p, m, rs, f, k, i + 1, k, gap)
             ELSE NeighbourScan(p, m, rs, f, k, i + 1, nb, dist)

\* One iteration of the loop over rules (lines 123-135) for feature f and the
\* rule at position r: the MF objects afterwards.
RepairRule(p, m, rs, f, r) ==
    LET k == rs[r].key[f]
        scan == NeighbourScan(p, m, rs, f, k, 1, 0, PlusInf)
    IN  IF scan.nb # 0 /\ scan.dist # FZero
        THEN LET m1 == [m EXCEPT ![f][scan.nb].low = m[f][k].mid]
             IN  [m1 EXCEPT ![f][k].high = m1[f][scan.nb].mid]
        ELSE m

\* ------------------------------------------------------------- the scans
RECURSIVE Activation(_, _, _, _, _, _)
Activation(p, m, key, row, f, act) ==
    IF f > Len(key) THEN act
    ELSE Activation(p, m, key, row, f + 1,
                    AddDiv(act, Fuzzyfy(p, m, f, key[f], row[f]), Len(key)))

Activations(p, m, rs, row) ==
    [r \in 1..Len(rs) |-> Activation(p, m, rs[r].key, row, 1, FZero)]

\* Mutant of TrainScan: the comparison of test (>=) in place of >.
RECURSIVE TrainScanLast(_, _, _, _)
TrainScanLast(acts, i, maxRule, maxAct) ==
    IF i > Len(acts) THEN maxRule
    ELSE IF FLeq(maxAct, acts[i])
         THEN TrainScanLast(acts, i + 1, i, acts[i])
         ELSE TrainScanLast(acts, i + 1, maxRule, maxAct)

\* train, lines 95-105: the position of max_rule in the dict, 0 for None
RECURSIVE TrainScan(_, _, _, _)
TrainScan(acts, i, maxRule, maxAct) ==
    IF i > Len(acts) THEN maxRule
    ELSE IF FLess(maxAct, acts[i])
         THEN TrainScan(acts, i + 1, i, acts[i])
         ELSE TrainScan(acts, i + 1, maxRule, maxAct)

\* Mutant of TestScan: the comparison of the training loop (>) in place of >=.
RECURSIVE TestScanFirst(_, _, _, _, _)
TestScanFirst(rs, acts, i, maxClass, maxAct) ==
    IF i > Len(acts) THEN maxClass
    ELSE IF FLess(maxAct, acts[i])
         THEN TestScanFirst(rs, acts, i + 1, rs[i].cls, acts[i])
         ELSE TestScanFirst(rs, acts, i + 1, maxClass, maxAct)

\* test, lines 149-158: max_class
RECURSIVE TestScan(_, _, _, _, _)
TestScan(rs, acts, i, maxClass, maxAct) ==
    IF i > Len(acts) THEN maxClass
    ELSE IF FLeq(maxAct, acts[i])
         THEN TestScan(rs, acts, i + 1, rs[i].cls, acts[i])
         ELSE TestScan(rs, acts, i + 1, maxClass, maxAct)

\* train, lines 109-112: move every function of the rule
RECURSIVE Adjust(_, _, _, _, _, _, _)
Adjust(p, m, key, row, lr, same, f) ==
    IF f > Len(key) THEN p
    ELSE Adjust([p EXCEPT ![f] = Move(p[f], m[f][key[f]], row[f], lr, same)],
                m, key, row, lr, same, f + 1)

\* Mutant of TrainObservation: every rule of positive activation is adjusted.
RECURSIVE AdjustEach(_, _, _, _, _, _, _, _)
AdjustEach(p, m, rs, acts, row, label, lr, r) ==
    IF r > Len(rs) THEN p
    ELSE IF FLess(FZero, acts[r])
         THEN AdjustEach(Adjust(p, m, rs[r].key, row, lr, rs[r].cls = label, 1),
                         m, rs, acts, row, label, lr, r + 1)
         ELSE AdjustEach(p, m, rs, acts, row, label, lr, r + 1)
TrainObservationAll(p, m, rs, acts, row, label, lr) ==
    AdjustEach(p, m, rs, acts, row, label, lr, 1)

\* train, lines 95-112 for one observation, acts being the activations of the
\* rules on it (lines 97-101): the Points afterwards
TrainObservation(p, m, rs, acts, row, label, lr) ==
    LET w == TrainScan(acts, 1, 0, FZero)
    IN  IF w = 0 THEN p
        ELSE Adjust(p, m, rs[w].key, row, lr, rs[w].cls = label, 1)

\* Mutant of Passes: one pass too many.
PassesPlusOne(n) == n + 1

\* range(0, nb_iter)
Passes(n) == n

\* --------------------------------------------------------------- inputs
\* Observed values are multiples of 7, so that the break points of line 52 are
\* whole numbers and two rules can be activated to the same degree, and the
\* value 3: in the range 0..14 it lies in the cells of the first two functions
\* only, halfway between their mids, so that the two rules can differ in class.
Values == {0, 3} \cup {Divisor * v : v \in 1..MaxVal}
Rows(n, nf) == [1..n -> [1..nf -> Values]]
Labels(n) == [1..n -> 0..MaxClass]
Perms(n) == {q \in [1..n -> 1..n] : \A i, j \in 1..n : q[i] = q[j] => i = j}

\* the learning rate 1/2
Rates == {FDiv(One, FromInt(2))}
HalfOf(k) == FDiv(FromInt(k), FromInt(2))
\* The matrix given to test: the training rows (as the script does, line 203)
\* followed by the same rows with every value greater by 1/2 and the same rows
\* with every value smaller by 1/2.
TestRows(d) ==
    [i \in 1..(3 * Len(d)) |->
        IF i <= Len(d) THEN FloatRow(d[i])
        ELSE IF i <= 2 * Len(d)
        THEN [f \in 1..Len(d[i - Len(d)]) |-> HalfOf(2 * d[i - Len(d)][f] + 1)]
        ELSE [f \in 1..Len(d[i - 2 * Len(d)]) |-> HalfOf(2 * d[i - 2 * Len(d)][f] - 1)]]

\* train shuffles the rows (line 38), so the order in which the caller passes them
\* is immaterial: the initial states hold one order of every collection of rows.
RECURSIVE RowCode(_, _)
RowCode(row, f) == IF f = 0 THEN 0 ELSE RowCode(row, f - 1) * (Divisor * MaxVal + 1) + row[f]
PairCode(d, t, i) ==
    RowCode(d[i], Len(d[i])) * (MaxClass + 1) + (IF i <= Len(t) THEN t[i] ELSE 0)
Ordered(d, t) == \A i \in 1..(Len(d) - 1) : PairCode(d, t, i) <= PairCode(d, t, i + 1)

InitRest ==
    /\ pc = "start"
    /\ nbFeatures = 0
    /\ pts = <<>>
    /\ mfs = <<>>
    /\ rules = <<>>
    /\ rf = 0
    /\ rr = 0
    /\ ret = "none"
    /\ repairs = 0
    /\ it = 0
    /\ ob = 0
    /\ steps = 0
    /\ winner = 0
    /\ scanActs = <<>>
    /\ testRows = <<>>
    /\ testActs = <<>>
    /\ predictions = <<>>

Init ==
    /\ \E n \in 1..MaxData, nf \in 0..MaxFeatures, l \in 1..MaxData :
          /\ n * nf <= MaxData
          /\ l \in {n - 1, n}
          /\ data \in Rows(n, nf)
          /\ target \in Labels(l)
          /\ Ordered(data, target)
    /\ minObs \in 1..MaxMinObs
    /\ nbIter \in 0..MaxIter
    /\ rate \in Rates
    /\ InitRest

\* ------------------------------------------------------------- actions
\* train, lines 34-38, the label vector as long as the matrix
TrainBegin ==
    /\ pc = "start"
    /\ Len(target) = NumRows(data)
    /\ \E q \in Perms(NumRows(data)) :
          /\ data' = [i \in 1..NumRows(data) |-> data[q[i]]]
          /\ target' = [i \in 1..NumRows(data) |-> target[q[i]]]
    /\ rules' = <<>>
    /\ nbFeatures' = NumCols(data)
    /\ pc' = "shuffled"
    /\ UNCHANGED <<minObs, nbIter, rate, pts, mfs, rf, rr, ret, repairs,
                   it, ob, steps, winner, scanActs, testRows, testActs, predictions>>

\* train, lines 34-38: shuffle raises on arrays of different lengths
TrainShapeError ==
    /\ pc = "start"
    /\ Len(target) # NumRows(data)
    /\ rules' = <<>>
    /\ nbFeatures' = NumCols(data)
    /\ pc' = "error"
    /\ UNCHANGED <<data, target, minObs, nbIter, rate, pts, mfs, rf, rr, ret, repairs,
                   it, ob, steps, winner, scanActs, testRows, testActs, predictions>>

\* train, lines 42-56
BuildPartitions ==
    /\ pc = "shuffled"
    /\ pts' = BuildPoints(data)
    /\ mfs' = BuildSplits(data)
    /\ pc' = "partitioned"
    /\ UNCHANGED <<data, target, minObs, nbIter, rate, nbFeatures, rules, rf, rr, ret,
                   repairs, it, ob, steps, winner, scanActs, testRows, testActs, predictions>>

\* train, lines 59-87
Induce ==
    /\ pc = "partitioned"
    /\ rules' = InduceFrom(pts, mfs, FloatData(data), target, minObs,
                           Product(Len(mfs)), 1, <<>>)
    /\ pc' = "induced"
    /\ UNCHANGED <<data, target, minObs, nbIter, rate, nbFeatures, pts, mfs, rf, rr, ret,
                   repairs, it, ob, steps, winner, scanActs, testRows, testActs, predictions>>

\* the call of repair: from train (line 89), or by the user of a trained NFS
RepairBegin ==
    /\ \/ pc = "induced" /\ ret' = "training"
       \/ pc = "trained" /\ repairs < MaxRepairs /\ ret' = "trained"
    /\ pc' = "repairing"
    /\ rf' = 1
    /\ rr' = 1
    /\ repairs' = repairs + 1
    /\ UNCHANGED <<data, target, minObs, nbIter, rate, nbFeatures, pts, mfs, rules,
                   it, ob, steps, winner, scanActs, testRows, testActs, predictions>>

\* repair, lines 122-135: one rule of one feature
RepairStep ==
    /\ pc = "repairing"
    /\ rf <= nbFeatures
    /\ rr <= Len(rules)
    /\ mfs' = RepairRule(pts, mfs, rules, rf, rr)
    /\ IF rr < Len(rules)
       THEN rr' = rr + 1 /\ rf' = rf
       ELSE rr' = 1 /\ rf' = rf + 1
    /\ UNCHANGED <<pc, data, target, minObs, nbIter, rate, nbFeatures, pts, rules, ret,
                   repairs, it, ob, steps, winner, scanActs, testRows, testActs, predictions>>

\* repair returns: both loops are over
RepairEnd ==
    /\ pc = "repairing"
    /\ rf > nbFeatures \/ Len(rules) = 0
    /\ pc' = ret
    /\ ret' = "none"
    /\ IF ret = "training" THEN it' = 0 /\ ob' = 1 ELSE UNCHANGED <<it, ob>>
    /\ UNCHANGED <<data, target, minObs, nbIter, rate, nbFeatures, pts, mfs, rules, rf, rr,
                   repairs, steps, winner, scanActs, testRows, testActs, predictions>>

\* train, lines 93-112: one observation of one pass
TrainObs ==
    /\ pc = "training"
    /\ it < Passes(nbIter)
    /\ scanActs' = Activations(pts, mfs, rules, FloatRow(data[ob]))
    /\ winner' = TrainScan(scanActs', 1, 0, FZero)
    /\ pts' = TrainObservation(pts, mfs, rules, scanActs', FloatRow(data[ob]),
                               target[ob], rate)
    /\ steps' = steps + 1
    /\ IF ob < NumRows(data)
       THEN ob' = ob + 1 /\ it' = it
       ELSE ob' = 1 /\ it' = it + 1
    /\ UNCHANGED <<pc, data, target, minObs, nbIter, rate, nbFeatures, mfs, rules, rf, rr,
                   ret, repairs, testRows, testActs, predictions>>

\* train, line 114
TrainEnd ==
    /\ pc = "training"
    /\ it >= Passes(nbIter)
    /\ pc' = "trained"
    /\ UNCHANGED <<data, target, minObs, nbIter, rate, nbFeatures, pts, mfs, rules, rf, rr,
                   ret, repairs, it, ob, steps, winner, scanActs, testRows, testActs,
                   predictions>>

\* test, lines 145-159
Test ==
    /\ pc = "trained"
    /\ testRows' = TestRows(data)
    /\ testActs' = [i \in 1..Len(testRows') |-> Activations(pts, mfs, rules, testRows'[i])]
    /\ predictions' = [i \in 1..Len(testRows') |->
                          TestScan(rules, testActs'[i], 1, NoClass, FZero)]
    /\ pc' = "tested"
    /\ UNCHANGED <<data, target, minObs, nbIter, rate, nbFeatures, pts, mfs, rules, rf, rr,
                   ret, repairs, it, ob, steps, winner, scanActs>>

Next ==
    \/ TrainBegin
    \/ TrainShapeError
    \/ BuildPartitions
    \/ Induce
    \/ RepairBegin
    \/ RepairStep
    \/ RepairEnd
    \/ TrainObs
    \/ TrainEnd
    \/ Test

Spec == Init /\ [][Next]_vars

\* The end-to-end scenario: one feature with the values 0..6, the labels
\* 0,0,0,1,1,1,1 (or, for the shape error, a label vector one short),
\* min_observations_per_rule = 2.
ScenarioData == [i \in 1..NumPoints |-> <<i - 1>>]
ScenarioTarget == <<0, 0, 0, 1, 1, 1, 1>>

ScenarioInit ==
    /\ data = ScenarioData
    /\ target \in {ScenarioTarget, SubSeq(ScenarioTarget, 1, Len(ScenarioTarget) - 1)}
    /\ minObs = 2
    /\ nbIter \in {0, 1}
    /\ rate = FDiv(One, FromInt(10))
    /\ InitRest

ScenarioSpec == ScenarioInit /\ [][Next]_vars

\* ---------------------------------------------------------------- claims
Trained == pc \in {"trained", "tested"} \/ (pc = "repairing" /\ ret = "trained")
UsedMFs(f) == {rules[r].key[f] : r \in 1..Len(rules)}
RuleCell(r) == Found(pts, mfs, FloatData(data), rules[r].key)
RowIndex(row) == CHOOSE i \in 1..Len(testRows) : testRows[i] = row

\* C1: in the scenario with nb_iter = 0, the RuleSet has a class-0 rule over low
\* values and a class-1 rule over high values, and test predicts class 0 for the
\* value 0.5 and class 1 for the value 5.5.
C1_Scenario ==
    (pc = "tested" /\ nbIter = 0) =>
        /\ \E r \in 1..Len(rules) :
              rules[r].cls = 0 /\ FLess(MidX(pts, mfs, 1, rules[r].key[1]), FromInt(3))
        /\ \E r \in 1..Len(rules) :
              rules[r].cls = 1 /\ FLess(FromInt(3), MidX(pts, mfs, 1, rules[r].key[1]))
        /\ predictions[RowIndex(<<HalfOf(1)>>)] = 0
        /\ predictions[RowIndex(<<HalfOf(11)>>)] = 1

\* C2: for every feature with min < max the 7 break points are equally spaced,
\* the first is min and the last is max, and every observed value of the feature
\* lies in [low.x, high.x] of at least one of the feature's 5 functions.
C2_PartitionCovers ==
    pc = "partitioned" =>
        \A f \in 1..nbFeatures :
            ColMin(data, f) < ColMax(data, f) =>
                /\ \A j \in 1..(NumPoints - 2) :
                      FSub(pts[f][j + 1], pts[f][j]) = FSub(pts[f][j + 2], pts[f][j + 1])
                /\ pts[f][1] = FromInt(ColMin(data, f))
                /\ pts[f][NumPoints] = FromInt(ColMax(data, f))
                /\ \A o \in 1..Len(data) : \E k \in 1..NumSplits :
                      /\ FLeq(LowX(pts, mfs, f, k), FromInt(data[o][f]))
                      /\ FLeq(FromInt(data[o][f]), HighX(pts, mfs, f, k))

\* C3 as stated: after induction the class of every rule has strictly more
\* observations in the rule's cell than every other class.
C3_StrictMajority ==
    pc = "induced" =>
        \A r \in 1..Len(rules) : \A c \in 0..MaxClass :
            c # rules[r].cls =>
                CellCount(target, RuleCell(r), rules[r].cls) > CellCount(target, RuleCell(r), c)

\* C3 as amended: after induction the class of every rule has at least as many
\* observations in the rule's cell as every other class, and strictly more than
\* every class with a greater label (among the classes tied for the greatest
\* count the rule gets the greatest label).
C3_Majority ==
    pc = "induced" =>
        \A r \in 1..Len(rules) : \A c \in 0..MaxClass :
            c # rules[r].cls =>
                LET mine == CellCount(target, RuleCell(r), rules[r].cls)
                    other == CellCount(target, RuleCell(r), c)
                IN  mine > other \/ (mine = other /\ c < rules[r].cls)

C3_Witness ==
    /\ pc = "induced"
    /\ \E r \in 1..Len(rules) : \E c \in 0..MaxClass :
          /\ c # rules[r].cls
          /\ CellCount(target, RuleCell(r), c) = CellCount(target, RuleCell(r), rules[r].cls)

\* C4: once repair has run (and before the training loop moves anything), on
\* every feature the intervals [low.x, high.x] of the surviving rules' functions
\* leave no gap: every function that does not reach the greatest high.x is
\* continued by one that starts at or before its high.x and ends after it.
C4_NoGap ==
    (pc = "training" /\ steps = 0) =>
        \A f \in 1..nbFeatures : \A k \in UsedMFs(f) :
            \/ \A g \in UsedMFs(f) : FLeq(HighX(pts, mfs, f, g), HighX(pts, mfs, f, k))
            \/ \E g \in UsedMFs(f) :
                  /\ FLeq(LowX(pts, mfs, f, g), HighX(pts, mfs, f, k))
                  /\ FLess(HighX(pts, mfs, f, k), HighX(pts, mfs, f, g))

\* C5: a repair that follows a repair with no training update in between changes
\* nothing: no rule, no class, no vertex reference and no vertex position.
C5_RepairIdempotent ==
    [][(pc = "repairing" /\ repairs >= 2 /\ steps = 0) =>
            (mfs' = mfs /\ pts' = pts /\ rules' = rules)]_vars

C5_Witness ==
    /\ pc = "trained"
    /\ repairs = 2
    /\ steps = 0
    /\ \E r \in 1..Len(rules) : \E f \in 1..nbFeatures :
          mfs[f][rules[r].key[f]].high = mfs[f][rules[r].key[f]].mid

\* C6: when two rules have the same, greatest, positive activation on an
\* observation, test predicts the class of the later-enumerated one (the last of
\* the rules of that activation), and the scan of the training loop, on the same
\* activations, picks the earlier-enumerated one (the first of them).
TopFirst(acts, a) ==
    /\ FLess(FZero, acts[a])
    /\ \A q \in 1..Len(acts) : FLeq(acts[q], acts[a])
    /\ \A q \in 1..(a - 1) : acts[q] # acts[a]
TopLast(acts, a, b) ==
    /\ acts[a] = acts[b]
    /\ \A q \in (b + 1)..Len(acts) : acts[q] # acts[a]
Tied(acts, a, b) == TopFirst(acts, a) /\ a < b /\ TopLast(acts, a, b)

C6_TieBreak ==
    /\ pc = "tested" =>
          \A i \in 1..Len(testRows) : \A a \in 1..Len(rules) :
              TopFirst(testActs[i], a) =>
                  \A b \in (a + 1)..Len(rules) :
                      TopLast(testActs[i], a, b) =>
                          /\ predictions[i] = rules[b].cls
                          /\ TrainScan(testActs[i], 1, 0, FZero) = a
    /\ (pc \in {"training", "trained"} /\ steps > 0) =>
          \A a \in 1..Len(rules) :
              TopFirst(scanActs, a) =>
                  \A b \in (a + 1)..Len(rules) :
                      TopLast(scanActs, a, b) => winner = a

\* A tested state in which two rules of different classes are tied on a row of
\* the test matrix, so that the prediction is not the class of the rule the
\* training scan picks, and the last observation of the training loop tied two
\* rules as well.
C6_Witness ==
    /\ pc = "tested"
    /\ steps > 0
    /\ \E a, b \in 1..Len(rules) : Tied(scanActs, a, b)
    /\ \E i \in 1..Len(testRows) : \E a, b \in 1..Len(rules) :
          /\ Tied(testActs[i], a, b)
          /\ rules[a].cls # rules[b].cls
          /\ predictions[i] = rules[b].cls
          /\ rules[TrainScan(testActs[i], 1, 0, FZero)].cls = rules[a].cls

\* C7: train on a zero-feature matrix, or with a label vector of another length
\* than the matrix has rows, puts no rule into the RuleSet and does not complete.
C7_ShapeErrorsFailFast ==
    (NumCols(data) = 0 \/ Len(target) # NumRows(data)) =>
        /\ rules = <<>>
        /\ ~Trained

\* C8: an iteration of repair for the function F of a surviving rule, when
\* another surviving rule's function G has the smallest mid.x greater than
\* F.high.x, sets G.low to F.mid and F.high to G.mid and leaves F.low, F.mid,
\* G.mid and G.high as they were.
C8_MergeStep ==
    [][(pc = "repairing" /\ rf <= nbFeatures /\ rr <= Len(rules)) =>
        LET F == rules[rr].key[rf]
            right == {g \in UsedMFs(rf) \ {F} :
                         FLess(HighX(pts, mfs, rf, F), MidX(pts, mfs, rf, g))}
        IN  right # {} =>
               LET G == CHOOSE g \in right :
                           \A h \in right :
                               FLeq(MidX(pts, mfs, rf, g), MidX(pts, mfs, rf, h))
               IN  /\ mfs'[rf][G].low = mfs[rf][F].mid
                   /\ mfs'[rf][F].high = mfs[rf][G].mid
                   /\ mfs'[rf][F].low = mfs[rf][F].low
                   /\ mfs'[rf][F].mid = mfs[rf][F].mid
                   /\ mfs'[rf][G].mid = mfs[rf][G].mid
                   /\ mfs'[rf][G].high = mfs[rf][G].high]_vars

\* C9 as stated: an observation of the training loop leaves the three vertex
\* positions of every function outside the winning rule's tuple as they were.
C9_OnlyWinnerFunctions ==
    [][pc = "training" =>
        \A f \in 1..nbFeatures : \A k \in 1..NumSplits :
            (winner' = 0 \/ rules[winner'].key[f] # k) =>
                /\ LowX(pts', mfs', f, k) = LowX(pts, mfs, f, k)
                /\ MidX(pts', mfs', f, k) = MidX(pts, mfs, f, k)
                /\ HighX(pts', mfs', f, k) = HighX(pts, mfs, f, k)]_vars

\* C9 as amended: an observation of the training loop moves only Points that are
\* vertices of the winning rule's functions, so a function that shares no vertex
\* with them keeps its three positions; with no winner nothing moves.
C9_OnlyWinnerVertices ==
    [][pc = "training" =>
        /\ mfs' = mfs
        /\ \A f \in 1..nbFeatures : \A j \in 1..NumPoints :
              pts'[f][j] # pts[f][j] =>
                  /\ winner' # 0
                  /\ j \in {mfs[f][rules[winner'].key[f]].low,
                            mfs[f][rules[winner'].key[f]].mid,
                            mfs[f][rules[winner'].key[f]].high}]_vars

C9_Witness ==
    /\ pc = "trained"
    /\ winner # 0
    /\ \E j \in 1..NumPoints : pts[1][j] # BuildPoints(data)[1][j]
    /\ \E r \in 1..Len(rules) : r # winner /\ FLess(FZero, scanActs[r])

\* C10: the training loop handles exactly one observation per row and pass: the
\* number of observations handled so far is it * N + ob - 1, it never exceeds
\* nb_iter * N, and it is nb_iter * N once the loop is over.
C10_LoopCount ==
    /\ pc = "training" =>
          /\ steps = it * NumRows(data) + (ob - 1)
          /\ it <= nbIter
          /\ ob \in 1..NumRows(data)
          /\ it = nbIter => ob = 1
    /\ Trained => steps = nbIter * NumRows(data)

C10_Witness ==
    /\ pc = "trained"
    /\ nbIter >= 2
    /\ steps = nbIter * NumRows(data)
    /\ winner # 0
    /\ Len(rules) >= 2
====
